---- MODULE Spec2Model ----
(***************************************************************************)
(* Model of internal/plugin/plugin.go of verify-conformance: the per-PR    *)
(* processing pass (handle) and its three reconcilers (updateLabels,       *)
(* updateComments, updateStatus) acting on the GitHub-side state of one    *)
(* pull request.                                                           *)
(*                                                                         *)
(* Strings are sequences of atoms.  An atom stands for a run of characters *)
(* that no template literal of the program straddles, so that substring    *)
(* search, formatting and case mapping can be computed atom by atom; two   *)
(* strings are equal iff their atom sequences are equal.                   *)
(***************************************************************************)
EXTENDS Integers, Sequences, FiniteSets, TLC

VARIABLES
    ghLabels,     \* labels of the PR on GitHub, in the order GitHub lists them
    ghComments,   \* issue comments of the PR on GitHub, oldest first
    ghStatus,     \* statuses of the head commit on GitHub: context -> state
    numCommits,   \* number of commits of the PR; the head commit is the last
    author,       \* login of the PR's author
    scenario,     \* what the gates and the rule suite will find for this PR
    pc,           \* position of the pass: idle, labels, comments, status
    trigger,      \* what started the current pass
    pr,           \* the PullRequestQuery snapshot handle was called with
    prLabels,     \* prSuite.PR.Labels, the in-memory label sequence
    outcome,      \* the (labels, comment, state, error) triple being applied
    calls,        \* GitHub calls issued in the current pass, in order
    gates,        \* gates evaluated in the current pass, in order
    comments0,    \* the comments on GitHub when updateComments was called
    labels0,      \* the labels on GitHub when the current pass fetched them
    result,       \* what the last finished pass returned
    returned,     \* newLabels, removedLabels of the last updateLabels call
    passes,       \* number of passes started
    prevClean,    \* the previous pass ran to its end with no failed call
    everSuccess,  \* the head commit has carried a successful status
    args,         \* the arguments of a function called on its own
    ret,          \* what the calls of that function returned, in order
    repo,         \* HandleAll: the open PRs of the repository on GitHub, by number
    orgs,         \* HandleAll: the orgs to search, in order
    searched,     \* HandleAll: the number of searches that have returned
    prs,          \* HandleAll: the PRs the searches returned so far, in order
    hpc,          \* HandleAll: start, search, loop or returned
    handled,      \* HandleAll: the invocations of handle so far, in order
    batchRet,     \* HandleAll: what it returned
    searchCursor, \* search: vars["searchCursor"], the cursor the next query passes
    found,        \* search: the PRs accumulated so far, in order
    queried,      \* search: the queries issued so far, in order
    spc           \* search: idle, query, returned or failed

passVars == <<ghLabels, ghComments, ghStatus, numCommits, author, scenario, pc,
              trigger, pr, prLabels, outcome, calls, gates, comments0, labels0,
              result, returned, passes, prevClean, everSuccess>>

batchVars == <<repo, orgs, searched, prs, hpc, handled, batchRet>>

searchVars == <<searchCursor, found, queried, spc>>

unitVars == <<args, ret, batchVars, searchVars>>

vars == <<passVars, unitVars>>

-----------------------------------------------------------------------------
(* Bounds *)

MaxPasses == 2
ExtraCommits == 1

-----------------------------------------------------------------------------
(* Strings *)

Str(a) == <<a>>
EmptyString == <<>>

\* strings.Contains
Contains(s, sub) ==
    \E i \in 1..(Len(s) - Len(sub) + 1) : SubSeq(s, i, i + Len(sub) - 1) = sub

\* strings.ToLower, atom by atom
LowerAtom(a) ==
    CASE a = "Conformance Results" -> "conformance results"
      [] a = " For" -> " for"
      [] a = "Update README" -> "update readme"
      [] a = "SUCCESS" -> "success"
      [] a = "FAILURE" -> "failure"
      [] a = "PENDING" -> "pending"
      [] a = "Verify-Conformance" -> "verify-conformance"
      [] a = "T" -> "t"
      [] OTHER -> a

ToLower(s) == [i \in 1..Len(s) |-> LowerAtom(s[i])]

\* strings.ToUpper, atom by atom
UpperAtom(a) ==
    CASE a = "t" -> "T"
      [] a = "u" -> "U"
      [] a = "success" -> "SUCCESS"
      [] a = "failure" -> "FAILURE"
      [] a = "pending" -> "PENDING"
      [] OTHER -> a

ToUpper(s) == [i \in 1..Len(s) |-> UpperAtom(s[i])]

\* strings.EqualFold
EqualFold(s, t) == ToLower(s) = ToLower(t)

\* strings.ReplaceAll(s, old, "") for a one-atom old
ReplaceAllWithEmpty(s, old) == SelectSeq(s, LAMBDA a : a # old)

RECURSIVE Sprintf(_, _)
\* fmt.Sprintf(format, arg) for a format whose only verb is %v
Sprintf(format, arg) ==
    IF format = <<>> THEN <<>>
    ELSE (IF Head(format) = "%v" THEN arg ELSE <<Head(format)>>)
             \o Sprintf(Tail(format), arg)

InSeq(x, s) == \E i \in 1..Len(s) : s[i] = x
SeqToSet(s) == {s[i] : i \in 1..Len(s)}

-----------------------------------------------------------------------------
(* Label classification *)

managedPRLabels ==
    << <<"conformance-product-submission">>,
       <<"not-conformance-product-submission">>,
       <<"not-verifiable">>,
       <<"release-", "documents-checked">>,
       <<"required-tests-missing">>,
       <<"evidence-missing">>,
       <<"unable-to-process">> >>

managedPRLabelTemplatesWithVersion ==
    << <<"release-", "%v">>, <<"no-failed-tests-", "%v">>, <<"tests-verified-", "%v">> >>

managedPRLabelTemplatesWithFileName == << <<"missing-file-", "%v">> >>

labelIsManaged(input) == \E i \in 1..Len(managedPRLabels) : managedPRLabels[i] = input

labelIsVersionLabel(label, version) ==
    \E i \in 1..Len(managedPRLabelTemplatesWithVersion) :
        LET ml == managedPRLabelTemplatesWithVersion[i] IN
            \/ Contains(label, ReplaceAllWithEmpty(ml, "%v"))
            \/ Sprintf(ml, version) = label

labelIsFileLabel(label, missingFiles) ==
    \E i \in 1..Len(managedPRLabelTemplatesWithFileName) :
        LET ml == managedPRLabelTemplatesWithFileName[i] IN
            \/ Contains(label, ReplaceAllWithEmpty(ml, "%v"))
            \/ \E j \in 1..Len(missingFiles) : Sprintf(ml, missingFiles[j]) = label

\* the condition of plugin.go:362 and :387, negated
IsManagedLabel(l, version, missingFiles) ==
    \/ labelIsVersionLabel(l, version)
    \/ labelIsFileLabel(l, missingFiles)
    \/ labelIsManaged(l)

-----------------------------------------------------------------------------
(* The GitHub side of the githubClient calls *)

Owner == "cncf"
BotLogin == "k8s-ci-robot"
StatusContext == Str("verify-conformance")
OtherContext == Str("ci/other")
NoStatus == <<>>

\* a call record of the log
Call(op, arg, ok) == [op |-> op, arg |-> arg, ok |-> ok]

\* AddLabel on GitHub: the label is on the issue afterwards, once
GitHubAddLabel(labels, l) == IF InSeq(l, labels) THEN labels ELSE Append(labels, l)

\* RemoveLabel on GitHub: the label is not on the issue afterwards
GitHubRemoveLabel(labels, l) == SelectSeq(labels, LAMBDA x : x # l)

RECURSIVE GitHubAddLabels(_, _)
GitHubAddLabels(labels, ls) ==
    IF ls = <<>> THEN labels
    ELSE GitHubAddLabels(GitHubAddLabel(labels, Head(ls)), Tail(ls))

RECURSIVE GitHubRemoveLabels(_, _)
GitHubRemoveLabels(labels, ls) ==
    IF ls = <<>> THEN labels
    ELSE GitHubRemoveLabels(GitHubRemoveLabel(labels, Head(ls)), Tail(ls))

\* the state GetCombinedStatus reports for a commit: failure if a context
\* failed, else pending if a context is pending or there is none, else success
CombinedState(status) ==
    LET states == {status[c] : c \in DOMAIN status} \ {NoStatus} IN
        IF Str("failure") \in states \/ Str("error") \in states THEN Str("failure")
        ELSE IF states = {} \/ Str("pending") \in states THEN Str("pending")
        ELSE Str("success")

-----------------------------------------------------------------------------
(* updateLabels *)

\* AddRequests without the foundInLabels test of plugin.go:365-373
AddRequestsEvenIfPresent(labels, current, version, missingFiles) ==
    SelectSeq(labels, LAMBDA l : IsManagedLabel(l, version, missingFiles))

\* first loop (plugin.go:357-378): the labels AddLabel is requested for
AddRequests(labels, current, version, missingFiles) ==
    SelectSeq(labels, LAMBDA l :
        IsManagedLabel(l, version, missingFiles) /\ ~InSeq(l, current))

\* RemoveRequests that knows the fixed names only, not the templates
RemoveRequestsFixedNamesOnly(labels, current, version, missingFiles) ==
    SelectSeq(current, LAMBDA prl : labelIsManaged(prl) /\ ~InSeq(prl, labels))

\* second loop (plugin.go:382-405): the labels RemoveLabel is requested for
RemoveRequests(labels, current, version, missingFiles) ==
    SelectSeq(current, LAMBDA prl :
        IsManagedLabel(prl, version, missingFiles) /\ ~InSeq(prl, labels))

removeSliceOfStringsFromStringSlice(originalSlice, removeSlice) ==
    SelectSeq(originalSlice, LAMBDA oItem : ~InSeq(oItem, removeSlice))

\* LabelsAfterFailure undoing the changes made before the failing call
LabelsRolledBack(gh, changed) == gh

\* plugin.go:374-376, 401-403: the return on a failed call undoes nothing, the
\* labels on GitHub keep the changes made before it
LabelsAfterFailure(gh, changed) == changed

\* updateLabels on the GitHub labels gh and the in-memory labels current.
\* failAt = 0: every call succeeds; failAt = k > 0: the k-th call fails.
updateLabels(gh, current, labels, version, missingFiles, failAt) ==
    LET adds == AddRequests(labels, current, version, missingFiles)
        nA == Len(adds)
        appended == current \o adds
        removes == RemoveRequests(labels, appended, version, missingFiles)
        nR == Len(removes)
        addCalls(n) == [i \in 1..n |-> Call("AddLabel", adds[i], TRUE)]
        removeCalls(n) == [i \in 1..n |-> Call("RemoveLabel", removes[i], TRUE)]
    IN  IF failAt \in 1..nA
        THEN [calls |-> addCalls(failAt - 1) \o <<Call("AddLabel", adds[failAt], FALSE)>>,
              gh |-> LabelsAfterFailure(gh, GitHubAddLabels(gh, SubSeq(adds, 1, failAt - 1))),
              prLabels |-> current,
              newLabels |-> <<>>, removedLabels |-> <<>>, err |-> TRUE]
        ELSE IF failAt \in (nA + 1)..(nA + nR)
        THEN [calls |-> addCalls(nA) \o removeCalls(failAt - nA - 1)
                            \o <<Call("RemoveLabel", removes[failAt - nA], FALSE)>>,
              gh |-> LabelsAfterFailure(gh,
                         GitHubRemoveLabels(GitHubAddLabels(gh, adds),
                                            SubSeq(removes, 1, failAt - nA - 1))),
              prLabels |-> appended,
              newLabels |-> <<>>, removedLabels |-> <<>>, err |-> TRUE]
        ELSE LET removedLabels == IF nR = 0 THEN <<>>
                                  ELSE Append(appended, removes[nR])
             IN [calls |-> addCalls(nA) \o removeCalls(nR),
                 gh |-> GitHubRemoveLabels(GitHubAddLabels(gh, adds), removes),
                 prLabels |-> removeSliceOfStringsFromStringSlice(appended, removedLabels),
                 newLabels |-> adds, removedLabels |-> removedLabels, err |-> FALSE]

\* the number of GitHub calls updateLabels issues when none fails
updateLabelsCalls(current, labels, version, missingFiles) ==
    LET adds == AddRequests(labels, current, version, missingFiles) IN
        Len(adds) + Len(RemoveRequests(labels, current \o adds, version, missingFiles))

-----------------------------------------------------------------------------
(* updateComments *)

Comment(login, body) == [login |-> login, body |-> body]

\* the checker BotUserChecker returns
botUserChecker(login) == login = BotLogin

\* plugin.go:420-429: positions of the non-empty comments of the bot
botComments(comments) ==
    SelectSeq([i \in 1..Len(comments) |-> i], LAMBDA i :
        botUserChecker(comments[i].login) /\ comments[i].body # EmptyString)

\* plugin.go:430: the latest bot comment already has this body
NothingNewToAdd(comments, comment) ==
    LET bc == botComments(comments) IN
        Len(bc) > 0 /\ comments[bc[Len(bc)]].body = comment

\* botCommentsToPrune without the slicing of plugin.go:435-437
botCommentsToPruneAll(comments) == botComments(comments)

\* plugin.go:434-437
botCommentsToPrune(comments) ==
    LET bc == botComments(comments) IN
        IF Len(bc) > 0 THEN SubSeq(bc, 1, Len(bc) - 1) ELSE bc

\* DeleteStaleComments: the listed comments isStale accepts, in order
StaleComments(comments) ==
    SelectSeq(botCommentsToPrune(comments), LAMBDA i : botUserChecker(comments[i].login))

\* the comments left on GitHub once those at the positions in deleted are gone
GitHubDeleteComments(comments, deleted) ==
    LET keep == SelectSeq([i \in 1..Len(comments) |-> i], LAMBDA i : ~InSeq(i, deleted))
    IN [k \in 1..Len(keep) |-> comments[keep[k]]]

\* CreateComment on GitHub: a new comment of the bot, the latest
GitHubCreateComment(comments, body) == Append(comments, Comment(BotLogin, body))

\* failAt = 0: every call succeeds; 1: ListIssueComments fails; 2: BotUserChecker
\* fails; 2 + k: the k-th delete fails; after the deletes: CreateComment fails.
updateComments(gh, comment, failAt) ==
    LET stale == StaleComments(gh)
        nD == Len(stale)
        list(ok) == <<Call("ListIssueComments", <<>>, ok)>>
        bot(ok) == <<Call("BotUserChecker", <<>>, ok)>>
        deletes(n) == [i \in 1..n |-> Call("DeleteComment", stale[i], TRUE)]
    IN  IF failAt = 1 THEN [calls |-> list(FALSE), gh |-> gh, err |-> TRUE]
        ELSE IF failAt = 2
        THEN [calls |-> list(TRUE) \o bot(FALSE), gh |-> gh, err |-> TRUE]
        ELSE IF NothingNewToAdd(gh, comment)
        THEN [calls |-> list(TRUE) \o bot(TRUE), gh |-> gh, err |-> FALSE]
        ELSE IF failAt \in 3..(2 + nD)
        THEN [calls |-> list(TRUE) \o bot(TRUE) \o deletes(failAt - 3)
                            \o <<Call("DeleteComment", stale[failAt - 2], FALSE)>>,
              gh |-> GitHubDeleteComments(gh, SubSeq(stale, 1, failAt - 3)),
              err |-> TRUE]
        ELSE IF failAt = 3 + nD
        THEN [calls |-> list(TRUE) \o bot(TRUE) \o deletes(nD)
                            \o <<Call("CreateComment", comment, FALSE)>>,
              gh |-> GitHubDeleteComments(gh, stale), err |-> TRUE]
        ELSE [calls |-> list(TRUE) \o bot(TRUE) \o deletes(nD)
                            \o <<Call("CreateComment", comment, TRUE)>>,
              gh |-> GitHubCreateComment(GitHubDeleteComments(gh, stale), comment),
              err |-> FALSE]

\* the failure points of updateComments on these comments
updateCommentsFailures(gh, comment) ==
    IF NothingNewToAdd(gh, comment) THEN 0..2 ELSE 0..(3 + Len(StaleComments(gh)))

-----------------------------------------------------------------------------
(* updateStatus *)

CommitsFirst == 5
NoOid == 0
StatusStateSuccess == Str("SUCCESS")

RECURSIVE FirstContextCaseSensitive(_)
\* FirstContext with == in place of strings.EqualFold
FirstContextCaseSensitive(contexts) ==
    IF contexts = <<>> THEN FALSE
    ELSE IF Head(contexts).context = Str("verify-conformance")
         THEN Head(contexts).state = Str("success")
         ELSE FirstContextCaseSensitive(Tail(contexts))

RECURSIVE FirstContext(_)
\* plugin.go:485-490: the first verify-conformance context decides
FirstContext(contexts) ==
    IF contexts = <<>> THEN FALSE
    ELSE IF EqualFold(Head(contexts).context, Str("verify-conformance"))
         THEN EqualFold(Head(contexts).state, StatusStateSuccess)
         ELSE FirstContext(Tail(contexts))

RECURSIVE currentLatestHasCurrentStatus(_, _)
\* plugin.go:479-491 over pr.Commits.Nodes
currentLatestHasCurrentStatus(nodes, headRefOID) ==
    IF nodes = <<>> THEN FALSE
    ELSE IF Head(nodes).oid # headRefOID
         THEN currentLatestHasCurrentStatus(Tail(nodes), headRefOID)
         ELSE IF \E i \in 1..Len(Head(nodes).contexts) :
                     EqualFold(Head(nodes).contexts[i].context, Str("verify-conformance"))
              THEN FirstContext(Head(nodes).contexts)
              ELSE currentLatestHasCurrentStatus(Tail(nodes), headRefOID)

\* Description with the failure text for every state but success
DescriptionFailureByDefault(state) ==
    IF state = Str("success") THEN Str("All checks are passing")
    ELSE Str("Please check failing requirements and update accordingly")

\* plugin.go:496-504
Description(state) ==
    IF state = Str("success") THEN Str("All checks are passing")
    ELSE IF state = Str("failure")
         THEN Str("Please check failing requirements and update accordingly")
         ELSE Str("Internal error")

\* CreateStatus on GitHub: the context of the commit takes the state
GitHubCreateStatus(status, context, state) == [status EXCEPT ![context] = state]

\* failAt = 0: every call succeeds; 1: GetCombinedStatus fails; 2: CreateStatus
\* fails.  head is the PR's head commit on GitHub; a ref that names no commit
\* has no combined status.
updateStatus(gh, head, snapshot, state, failAt) ==
    LET ref == snapshot.headRefOID
        get(ok) == <<Call("GetCombinedStatus", ref, ok)>>
        create(ok) == <<Call("CreateStatus",
                             [ref |-> ref, context |-> StatusContext, state |-> state,
                              description |-> Description(state)], ok)>>
    IN  IF currentLatestHasCurrentStatus(snapshot.commits, ref)
        THEN [calls |-> <<>>, gh |-> gh, err |-> FALSE]
        ELSE IF failAt = 1 \/ ref # head
        THEN [calls |-> get(FALSE), gh |-> gh, err |-> TRUE]
        ELSE IF CombinedState(gh) = state
        THEN [calls |-> get(TRUE), gh |-> gh, err |-> FALSE]
        ELSE IF failAt = 2
        THEN [calls |-> get(TRUE) \o create(FALSE), gh |-> gh, err |-> TRUE]
        ELSE [calls |-> get(TRUE) \o create(TRUE),
              gh |-> GitHubCreateStatus(gh, StatusContext, state), err |-> FALSE]

\* the failure points of updateStatus
updateStatusFailures(gh, head, snapshot, state) ==
    IF currentLatestHasCurrentStatus(snapshot.commits, snapshot.headRefOID) THEN {0}
    ELSE IF snapshot.headRefOID # head THEN {1}
    ELSE IF CombinedState(gh) = state THEN 0..1
    ELSE 0..2

-----------------------------------------------------------------------------
(* handle: the gates *)

\* plugin.go:473-475
isConformancePR(title) ==
    Contains(ToLower(title), <<"conformance results", " for">>)

NoError == <<>>
Pending == Str("pending")
Success == Str("success")
Failure == Str("failure")

\* plugin.go:540-548
NotConformanceComment ==
    Str("This pull request appears to not be a conformance results submission; Checks will not run.")

\* ReleaseErrorComment without the strings.ToUpper of plugin.go:565
ReleaseErrorCommentNotCapitalized(err) == Sprintf(<<"%v", ".">>, err)

\* plugin.go:564-565; the first atom of an error text is its first character
ReleaseErrorComment(err) ==
    Sprintf(<<"%v", ".">>, ToUpper(SubSeq(err, 1, 1)) \o SubSeq(err, 2, Len(err)))

\* plugin.go:581
MetadataMissingComment(version) ==
    Sprintf(<<"The release version ", "%v",
              " is unable to be processed at this time; Please wait as this version may become available soon.">>,
            version)

Apply(gs, labels, comment, state, err, missingFiles) ==
    [gates |-> gs, apply |-> TRUE, labels |-> labels, comment |-> comment,
     state |-> state, err |-> err, missingFiles |-> missingFiles, result |-> "nil"]

Stop(gs, res) ==
    [gates |-> gs, apply |-> FALSE, labels |-> <<>>, comment |-> <<>>,
     state |-> <<>>, err |-> FALSE, missingFiles |-> <<>>, result |-> res]

\* NotConformanceOutcome ending like the later gates, with an error
NotConformanceOutcomeReportsError ==
    [gates |-> <<"title">>, apply |-> TRUE,
     labels |-> <<Str("not-conformance-product-submission"), Str("unable-to-process")>>,
     comment |-> NotConformanceComment, state |-> Str("pending"), err |-> TRUE,
     missingFiles |-> <<>>, result |-> "nil"]

\* plugin.go:539-560: the outcome when the title is not a conformance title
NotConformanceOutcome ==
    Apply(<<"title">>,
          <<Str("not-conformance-product-submission"), Str("unable-to-process")>>,
          NotConformanceComment, Pending, FALSE, <<>>)

\* plugin.go:563-578: the outcome when ItIsAValidAndSupportedRelease fails
UnsupportedReleaseOutcome(sc) ==
    Apply(<<"title", "release">>,
          <<Str("conformance-product-submission"), Str("unable-to-process")>>,
          ReleaseErrorComment(sc.releaseErr), Pending, TRUE, <<>>)

\* MetadataUnavailable without the os.IsNotExist test
MetadataUnavailableOnAnyError(metadata) == metadata # "exists"

\* plugin.go:580: err != nil && os.IsNotExist(err)
MetadataUnavailable(metadata) == metadata # "exists" /\ metadata = "notexist"

\* plugin.go:581-593: the outcome when conformance.yaml does not exist
MetadataMissingOutcome(sc) ==
    Apply(<<"title", "release", "metadata">>,
          <<Str("conformance-product-submission"), Str("unable-to-process")>>,
          MetadataMissingComment(sc.version), Pending, TRUE, <<>>)

\* NothingNew looking at the comment only
NothingNewOnEmptyComment(finalComment, labels) == finalComment = EmptyString

\* plugin.go:601: finalComment == "" && len(labels) == 0
NothingNew(finalComment, labels) == finalComment = EmptyString /\ Len(labels) = 0

\* Gates running the rule suite whatever the earlier gates find
GatesSuiteRegardless(sc) ==
    IF sc.verdict.err
    THEN Stop(<<"title", "release", "metadata", "suite">>, "suite")
    ELSE Apply(<<"title", "release", "metadata", "suite">>,
               sc.verdict.labels, sc.verdict.comment, sc.verdict.state, FALSE,
               sc.verdict.missingFiles)

\* plugin.go:538-604: the gates in order, and the triple the pass applies
Gates(sc) ==
    IF ~isConformancePR(sc.title) THEN NotConformanceOutcome
    ELSE IF sc.releaseErr # NoError THEN UnsupportedReleaseOutcome(sc)
    ELSE IF MetadataUnavailable(sc.metadata) THEN MetadataMissingOutcome(sc)
    ELSE IF sc.verdict.err
    THEN Stop(<<"title", "release", "metadata", "suite">>, "suite")
    ELSE IF NothingNew(sc.verdict.comment, sc.verdict.labels)
    THEN Stop(<<"title", "release", "metadata", "suite">>, "nil")
    ELSE Apply(<<"title", "release", "metadata", "suite">>,
               sc.verdict.labels, sc.verdict.comment, sc.verdict.state, FALSE,
               sc.verdict.missingFiles)

-----------------------------------------------------------------------------
(* The snapshots handle is called with *)

\* the status contexts of the head commit as the search query returns them
SearchContexts(status) ==
    LET cs == SelectSeq(<<OtherContext, StatusContext>>, LAMBDA c : status[c] # NoStatus)
    IN [i \in 1..Len(cs) |-> [context |-> cs[i], state |-> ToUpper(status[cs[i]])]]

\* a PullRequestQuery as search fills it: commits(first:5), oldest first
SearchSnapshot(title, n, status) ==
    [title |-> title, owner |-> Owner, headRefOID |-> n,
     commits |-> [i \in 1..(IF n < CommitsFirst THEN n ELSE CommitsFirst) |->
                     [oid |-> i,
                      contexts |-> IF i = n THEN SearchContexts(status) ELSE <<>>]]]

\* plugin.go:628-651: the owner is the author's login, no head and no commits
NewPullRequestQueryForGithubPullRequest(title, login) ==
    [title |-> title, owner |-> login, headRefOID |-> NoOid, commits |-> <<>>]

-----------------------------------------------------------------------------
(* The pull requests and environments the model ranges over *)

LabelCPS == Str("conformance-product-submission")
LabelNCPS == Str("not-conformance-product-submission")
LabelUTP == Str("unable-to-process")
LabelRDC == <<"release-", "documents-checked">>
LabelRelease28 == <<"release-", "v1.28">>
LabelRelease29 == <<"release-", "v1.29">>
LabelMissingReadme == <<"missing-file-", "README.md">>
LabelUnrelated == Str("unrelated-label")

TitleOther == Str("Update README")
TitleConformance == <<"Conformance Results", " For", " v1.29 acme">>
ReleaseError == <<"u", "nable to use release v1.99, it is not a supported release">>

Verdict(comment, labels, state, missingFiles, err) ==
    [comment |-> comment, labels |-> labels, state |-> state,
     missingFiles |-> missingFiles, err |-> err]

VerdictPass ==
    Verdict(Str("All requirements have passed for the submission!"),
            <<LabelCPS, LabelRelease29, LabelRDC>>, Success, <<>>, FALSE)
VerdictFail ==
    Verdict(Str("Some requirements have not passed for the submission."),
            <<LabelCPS, LabelRelease29, LabelMissingReadme>>, Failure,
            <<Str("README.md")>>, FALSE)
VerdictNothingNew == Verdict(EmptyString, <<>>, Pending, <<>>, FALSE)
VerdictNoComment == Verdict(EmptyString, <<LabelCPS>>, Pending, <<>>, FALSE)
VerdictError == Verdict(EmptyString, <<>>, EmptyString, <<>>, TRUE)

Verdicts == {VerdictPass, VerdictFail, VerdictNothingNew, VerdictNoComment, VerdictError}

Scenario(title, releaseErr, metadata, verdict) ==
    [title |-> title, releaseErr |-> releaseErr, metadata |-> metadata,
     verdict |-> verdict, version |-> Str("v1.29")]

\* one scenario per way through the gates
Scenarios ==
    {Scenario(TitleOther, NoError, "exists", VerdictPass),
     Scenario(TitleConformance, ReleaseError, "exists", VerdictPass),
     Scenario(TitleConformance, NoError, "notexist", VerdictPass),
     Scenario(TitleConformance, NoError, "ioerror", VerdictFail)}
    \cup {Scenario(TitleConformance, NoError, "exists", v) : v \in Verdicts}

InitialLabels ==
    << <<>>,
       <<LabelRelease28, LabelUnrelated>>,
       <<LabelNCPS, LabelRDC, LabelUTP>> >>

InitialComments ==
    << <<>>,
       <<Comment(BotLogin, Str("old")), Comment("alice", Str("old")),
         Comment(BotLogin, VerdictPass.comment)>>,
       <<Comment(BotLogin, Str("old")), Comment(BotLogin, VerdictFail.comment),
         Comment(BotLogin, EmptyString)>> >>

Statuses(vc, oc) == [c \in {StatusContext, OtherContext} |-> IF c = StatusContext THEN vc ELSE oc]

InitialStatuses ==
    << Statuses(NoStatus, NoStatus), Statuses(Failure, NoStatus),
       Statuses(NoStatus, Failure), Statuses(Failure, Failure) >>

\* the pull requests a run starts from: every two of the initial labels,
\* comments and statuses occur together in one of them
InitialPullRequests ==
    {[labels |-> InitialLabels[i], comments |-> InitialComments[j],
      status |-> InitialStatuses[k]] :
        <<i, j, k>> \in {t \in (1..Len(InitialLabels)) \X (1..Len(InitialComments))
                                    \X (1..Len(InitialStatuses)) :
                            (t[1] + t[2] + t[3]) % Len(InitialLabels) = 0}}

Authors == {Owner, "alice"}

-----------------------------------------------------------------------------
(* The state machine *)

Clean == {"nil", "gate", "suite"}

\* HandleAll over the repository is not running
NoCursor == 0

SearchIdle ==
    /\ searchCursor = NoCursor
    /\ found = <<>>
    /\ queried = <<>>
    /\ spc = "idle"

BatchIdle ==
    /\ repo = <<>>
    /\ orgs = <<>>
    /\ searched = 0
    /\ prs = <<>>
    /\ hpc = "start"
    /\ handled = <<>>
    /\ batchRet = "none"

Init ==
    /\ \E p \in InitialPullRequests :
           /\ ghLabels = p.labels
           /\ ghComments = p.comments
           /\ ghStatus = p.status
    /\ numCommits \in {CommitsFirst, CommitsFirst + ExtraCommits}
    /\ author \in Authors
    /\ scenario \in Scenarios
    /\ pc = "idle"
    /\ trigger = "none"
    /\ pr = NewPullRequestQueryForGithubPullRequest(EmptyString, author)
    /\ prLabels = <<>>
    /\ outcome = Stop(<<>>, "nil")
    /\ calls = <<>>
    /\ gates = <<>>
    /\ comments0 = <<>>
    /\ labels0 = <<>>
    /\ result = "none"
    /\ returned = [newLabels |-> <<>>, removedLabels |-> <<>>]
    /\ passes = 0
    /\ prevClean = FALSE
    /\ everSuccess = (ghStatus[StatusContext] = Success)
    /\ args = <<>>
    /\ ret = <<>>
    /\ BatchIdle
    /\ SearchIdle

\* nothing of the last pass is kept but what it returned
Forget(res) ==
    /\ trigger' = "none"
    /\ pr' = NewPullRequestQueryForGithubPullRequest(EmptyString, author)
    /\ prevClean' = FALSE
    /\ prLabels' = <<>>
    /\ outcome' = Stop(<<>>, "nil")
    /\ calls' = <<>>
    /\ gates' = <<>>
    /\ comments0' = <<>>
    /\ labels0' = <<>>
    /\ returned' = [newLabels |-> <<>>, removedLabels |-> <<>>]
    /\ result' = res

\* a pass starts, the n-th: handle is entered with the snapshot
Begin(trig, snapshot, n) ==
    /\ pc = "idle"
    /\ pc' = "handle"
    /\ trigger' = trig
    /\ pr' = snapshot
    /\ passes' = n
    /\ prevClean' = (result \in Clean)
    /\ prLabels' = <<>>
    /\ outcome' = Stop(<<>>, "nil")
    /\ calls' = <<>>
    /\ gates' = <<>>
    /\ comments0' = <<>>
    /\ labels0' = <<>>
    /\ returned' = [newLabels |-> <<>>, removedLabels |-> <<>>]
    /\ result' = "running"
    /\ UNCHANGED <<unitVars, ghLabels, ghComments, ghStatus, numCommits, author, scenario,
                   everSuccess>>

\* one more pass of a run
Enter(trig, snapshot) == passes < MaxPasses /\ Begin(trig, snapshot, passes + 1)

\* plugin.go:737-743 for this PR: handle on the snapshot the search returned
HandleAll == Enter("periodic", SearchSnapshot(scenario.title, numCommits, ghStatus))

\* plugin.go:664-673
HandlePullRequestEvent ==
    \E action \in {"opened", "reopened", "edited"} :
        IF action \in {"opened", "reopened"}
        THEN Enter("event",
                   NewPullRequestQueryForGithubPullRequest(scenario.title, author))
        ELSE pc = "idle" /\ UNCHANGED vars

\* plugin.go:678-689: GetPullRequest may fail
HandleIssueCommentEvent ==
    \E ok \in BOOLEAN :
        IF ok
        THEN Enter("event",
                   NewPullRequestQueryForGithubPullRequest(scenario.title, author))
        ELSE /\ pc = "idle"
             /\ passes < MaxPasses
             /\ passes' = passes + 1
             /\ trigger' = "event"
             /\ prevClean' = (result \in Clean)
             /\ calls' = <<Call("GetPullRequest", <<>>, FALSE)>>
             /\ gates' = <<>>
             /\ result' = "event"
             /\ UNCHANGED <<unitVars, ghLabels, ghComments, ghStatus, numCommits, author,
                            scenario, pc, pr, prLabels, outcome, comments0, labels0,
                            returned, everSuccess>>

\* NewPRSuiteForPR, plugin.go:218-243.  failAt = 0: every fetch succeeds;
\* 1: GetIssueLabels, 2: GetStableTxt, 3: GetPullRequestChanges,
\* 4: fetchFileFromURI fails.  A repository other than the PR's has no such issue.
NewPRSuiteForPR(snapshot, failAt) ==
    LET f == IF snapshot.owner # Owner THEN 1 ELSE failAt
        ops == <<"GetIssueLabels", "GetStableTxt", "GetPullRequestChanges",
                 "fetchFileFromURI">>
    IN  IF f = 0
        THEN [calls |-> [i \in 1..4 |-> Call(ops[i], <<>>, TRUE)], err |-> FALSE]
        ELSE [calls |-> [i \in 1..f |-> Call(ops[i], <<>>, i < f)], err |-> TRUE]

AfterFetchIgnoringError(err) == "gates"

\* plugin.go:532-535: an error of NewPRSuiteForPR is returned at once
AfterFetch(err) == IF err THEN "return" ELSE "gates"

\* plugin.go:530-604: build the suite and go through the gates
handle ==
    /\ pc = "handle"
    /\ \E failAt \in 0..4 :
        LET s == NewPRSuiteForPR(pr, failAt)
            g == Gates(scenario)
        IN  /\ calls' = s.calls
            /\ IF AfterFetch(s.err) = "return"
               THEN /\ pc' = "idle"
                    /\ result' = "fetch"
                    /\ UNCHANGED <<prLabels, labels0, gates, outcome>>
               ELSE /\ prLabels' = ghLabels
                    /\ labels0' = ghLabels
                    /\ gates' = g.gates
                    /\ outcome' = g
                    /\ pc' = IF g.apply THEN "labels" ELSE "idle"
                    /\ result' = IF g.apply THEN "running" ELSE g.result
    /\ UNCHANGED <<unitVars, ghLabels, ghComments, ghStatus, numCommits, author, scenario,
                   trigger, pr, comments0, returned, passes, prevClean, everSuccess>>

\* the err != nil checks after each reconciler (plugin.go:551-559, 568-576,
\* 584-592, 612-624): an error ends the pass
\* AfterLabels dropping the error
AfterLabelsIgnoringError(err) == "comments"

AfterLabels(err) == IF err THEN "idle" ELSE "comments"
AfterComments(err) == IF err THEN "idle" ELSE "status"

\* the updateLabels call of the terminal step
handleUpdateLabels ==
    /\ pc = "labels"
    /\ \E failAt \in 0..updateLabelsCalls(prLabels, outcome.labels, scenario.version,
                                           outcome.missingFiles) :
        LET r == updateLabels(ghLabels, prLabels, outcome.labels, scenario.version,
                              outcome.missingFiles, failAt)
        IN  /\ ghLabels' = r.gh
            /\ prLabels' = r.prLabels
            /\ returned' = [newLabels |-> r.newLabels, removedLabels |-> r.removedLabels]
            /\ calls' = calls \o r.calls
            /\ pc' = AfterLabels(r.err)
            /\ result' = IF r.err THEN "labels" ELSE result
    /\ UNCHANGED <<unitVars, ghComments, ghStatus, numCommits, author, scenario, trigger, pr,
                   outcome, gates, comments0, labels0, passes, prevClean, everSuccess>>

\* the updateComments call of the terminal step
handleUpdateComments ==
    /\ pc = "comments"
    /\ \E failAt \in updateCommentsFailures(ghComments, outcome.comment) :
        LET r == updateComments(ghComments, outcome.comment, failAt)
        IN  /\ ghComments' = r.gh
            /\ comments0' = ghComments
            /\ calls' = calls \o r.calls
            /\ pc' = AfterComments(r.err)
            /\ result' = IF r.err THEN "comments" ELSE result
    /\ UNCHANGED <<unitVars, ghLabels, ghStatus, numCommits, author, scenario, trigger, pr,
                   prLabels, outcome, gates, labels0, returned, passes, prevClean,
                   everSuccess>>

\* the updateStatus call of the terminal step, and handle's return
handleUpdateStatus ==
    /\ pc = "status"
    /\ \E failAt \in updateStatusFailures(ghStatus, numCommits, pr, outcome.state) :
        LET r == updateStatus(ghStatus, numCommits, pr, outcome.state, failAt)
        IN  /\ ghStatus' = r.gh
            /\ everSuccess' = (everSuccess \/ r.gh[StatusContext] = Success)
            /\ calls' = calls \o r.calls
            /\ pc' = "idle"
            /\ result' = IF r.err THEN "status"
                         ELSE IF outcome.err THEN "gate" ELSE "nil"
    /\ UNCHANGED <<unitVars, ghLabels, ghComments, numCommits, author, scenario, trigger, pr,
                   prLabels, outcome, gates, comments0, labels0, returned, passes,
                   prevClean>>

\* between two passes the author edits the title; the head commit stays
TitleEdited ==
    /\ pc = "idle"
    /\ passes \in 1..(MaxPasses - 1)
    /\ scenario.title = TitleConformance
    /\ scenario' = [scenario EXCEPT !.title = TitleOther]
    /\ Forget("changed")
    /\ UNCHANGED <<unitVars, ghLabels, ghComments, ghStatus, numCommits, author, pc, passes,
                   everSuccess>>

\* between two passes what the rule suite reads outside the PR's commits (the
\* reference metadata, the URLs of PRODUCT.yaml) changes, and the verdict with it
VerdictChanges ==
    /\ pc = "idle"
    /\ passes \in 1..(MaxPasses - 1)
    /\ scenario.verdict = VerdictPass
    /\ scenario' = [scenario EXCEPT !.verdict = VerdictFail]
    /\ Forget("changed")
    /\ UNCHANGED <<unitVars, ghLabels, ghComments, ghStatus, numCommits, author, pc, passes,
                   everSuccess>>

Next ==
    \/ TitleEdited
    \/ VerdictChanges
    \/ HandleAll
    \/ HandlePullRequestEvent
    \/ HandleIssueCommentEvent
    \/ handle
    \/ handleUpdateLabels
    \/ handleUpdateComments
    \/ handleUpdateStatus

Spec == Init /\ [][Next]_vars

-----------------------------------------------------------------------------
(* Properties *)

MutatingOps == {"AddLabel", "RemoveLabel", "DeleteComment", "CreateComment", "CreateStatus"}
LabelOps == {"AddLabel", "RemoveLabel"}
CommentOps == {"ListIssueComments", "BotUserChecker", "DeleteComment", "CreateComment"}
StatusOps == {"GetCombinedStatus", "CreateStatus"}

CallsOf(ops) == SelectSeq(calls, LAMBDA c : c.op \in ops)
Managed(l) == IsManagedLabel(l, scenario.version, outcome.missingFiles)
Desired == SeqToSet(outcome.labels)
Current == SeqToSet(labels0)

\* C1: when updateLabels has returned without error and every desired label is
\* managed, the labels of the PR on GitHub are (current minus the managed labels
\* not desired) union desired; every unmanaged label that was on the PR is still
\* on it, and release-v1.28 is gone when release-v1.29 is desired.
C1_LabelsConverge ==
    (pc = "comments" /\ \A l \in Desired : Managed(l)) =>
        /\ SeqToSet(ghLabels) =
               (Current \ {l \in Current : Managed(l) /\ l \notin Desired}) \cup Desired
        /\ \A l \in Current : ~Managed(l) => InSeq(l, ghLabels)
        /\ (LabelRelease28 \in Current /\ LabelRelease29 \in Desired)
               => ~InSeq(LabelRelease28, ghLabels)
        /\ LabelUnrelated \in Current => InSeq(LabelUnrelated, ghLabels)

C1_Witness ==
    /\ pc = "comments"
    /\ labels0 = <<LabelRelease28, LabelUnrelated>>
    /\ LabelRelease29 \in Desired
    /\ SeqToSet(ghLabels) = {LabelUnrelated} \cup Desired

\* C2: every AddLabel request is for a desired label absent from the PR's
\* current labels; every RemoveLabel request is for a label present on the PR,
\* classified as managed and not desired; none is for an unmanaged label.
C2_OnlyJustifiedLabelCalls ==
    \A i \in 1..Len(calls) :
        /\ calls[i].op = "AddLabel" =>
               /\ calls[i].arg \in Desired
               /\ calls[i].arg \notin Current
               /\ Managed(calls[i].arg)
        /\ calls[i].op = "RemoveLabel" =>
               /\ calls[i].arg \in Current
               /\ calls[i].arg \notin Desired
               /\ Managed(calls[i].arg)

C2_Witness ==
    /\ \E i \in 1..Len(calls) : calls[i].op = "AddLabel" /\ calls[i].arg = LabelRelease29
    /\ \E i \in 1..Len(calls) : calls[i].op = "RemoveLabel" /\ calls[i].arg = LabelRelease28
    /\ LabelUnrelated \in Current

\* C3: when a pass ran to its end with no failed call, the next pass over the
\* same PR and verdict issues no AddLabel, RemoveLabel, comment delete,
\* CreateComment or CreateStatus call.
C3_SecondPassIssuesNothing ==
    prevClean => CallsOf(MutatingOps) = <<>>

\* C4: once the head commit has carried a successful verify-conformance status,
\* no pass issues a CreateStatus call with another state for that commit.
C4_SuccessNeverRegressed ==
    everSuccess =>
        \A i \in 1..Len(calls) :
            (calls[i].op = "CreateStatus" /\ calls[i].arg.ref = numCommits)
                => calls[i].arg.state = Success

\* the snapshot's head commit carries a successful verify-conformance context
SnapshotHeadSuccess ==
    \E i \in 1..Len(pr.commits) :
        /\ pr.commits[i].oid = pr.headRefOID
        /\ \E j \in 1..Len(pr.commits[i].contexts) :
               pr.commits[i].contexts[j] =
                   [context |-> Str("verify-conformance"), state |-> Str("SUCCESS")]

\* updateStatus has been called in the current pass and has returned
StatusReturned == pc = "idle" /\ outcome.apply /\ result \in {"nil", "gate", "status"}

\* C5: when the snapshot's head commit carries a successful verify-conformance
\* context, updateStatus calls neither GetCombinedStatus nor CreateStatus and
\* returns nil, whatever the desired state.
C5_SuccessShortCircuits ==
    (StatusReturned /\ SnapshotHeadSuccess) =>
        /\ CallsOf(StatusOps) = <<>>
        /\ result # "status"

C5_Witness ==
    /\ StatusReturned
    /\ SnapshotHeadSuccess
    /\ outcome.state = Failure
    /\ result = "nil"

\* the non-empty comments of the bot among those updateComments found
BotNonEmpty == {i \in 1..Len(comments0) :
                   comments0[i].login = BotLogin /\ comments0[i].body # EmptyString}
LatestBot == CHOOSE i \in BotNonEmpty : \A j \in BotNonEmpty : j <= i
SameAsLatest == BotNonEmpty # {} /\ comments0[LatestBot].body = outcome.comment
StalePositions == IF BotNonEmpty = {} THEN {} ELSE BotNonEmpty \ {LatestBot}
CommentsCalled == CallsOf({"ListIssueComments"}) # <<>>
Deleted == {calls[i].arg : i \in {k \in 1..Len(calls) :
                                      calls[k].op = "DeleteComment" /\ calls[k].ok}}
NoFailedCall == \A i \in 1..Len(calls) : calls[i].ok

\* C6 as stated: if the latest non-empty bot comment has the new body, no delete
\* and no CreateComment call; otherwise exactly one CreateComment call with the
\* new body, and every non-empty bot comment but the latest is deleted; no
\* comment of another author is deleted.
C6_AsStated ==
    CommentsCalled =>
        /\ IF SameAsLatest
           THEN CallsOf({"DeleteComment", "CreateComment"}) = <<>>
           ELSE /\ Len(CallsOf({"CreateComment"})) = 1
                /\ CallsOf({"CreateComment"})[1].arg = outcome.comment
                /\ Deleted = StalePositions
        /\ \A i \in Deleted : comments0[i].login = BotLogin

\* C6 amended: if the latest non-empty bot comment has the new body, no delete
\* and no CreateComment call is made.  Otherwise, when no call of
\* updateComments fails, exactly one CreateComment call is made, with the new
\* body, and every non-empty bot comment but the latest has been deleted; when a
\* call fails, CreateComment is attempted at most once and only after all those
\* deletes.  Only non-empty bot comments other than the latest are ever deleted.
C6_CommentsReconciled ==
    CommentsCalled =>
        /\ SameAsLatest => CallsOf({"DeleteComment", "CreateComment"}) = <<>>
        /\ \A i \in 1..Len(calls) :
               calls[i].op = "DeleteComment" =>
                   /\ calls[i].arg \in StalePositions
                   /\ comments0[calls[i].arg].login = BotLogin
        /\ Len(CallsOf({"CreateComment"})) <= 1
        /\ \A i \in 1..Len(calls) :
               calls[i].op = "CreateComment" =>
                   /\ calls[i].arg = outcome.comment
                   /\ Deleted = StalePositions
        /\ (~SameAsLatest /\ \A i \in 1..Len(calls) :
                                 calls[i].op \in CommentOps => calls[i].ok)
               => /\ Len(CallsOf({"CreateComment"})) = 1
                  /\ Deleted = StalePositions

C6_Witness ==
    /\ pc = "status"
    /\ \E i \in 1..Len(comments0) : comments0[i].login # BotLogin
    /\ Deleted # {}
    /\ Len(CallsOf({"CreateComment"})) = 1
    /\ Len(ghComments) = Len(comments0)

\* the prefix of the calls of a pass that handle's reconcilers issued
LabelCallsAre(ls) == \A i \in 1..Len(calls) : calls[i].op = "AddLabel" => calls[i].arg \in ls
CommentCallsAre(body) ==
    \A i \in 1..Len(calls) : calls[i].op = "CreateComment" => calls[i].arg = body
StatusCallsAre(state) ==
    \A i \in 1..Len(calls) : calls[i].op = "CreateStatus" => calls[i].arg.state = state

\* C7: when the title lacks the marker phrase, the pass applies the labels
\* not-conformance-product-submission and unable-to-process, the fixed comment
\* and the status pending, evaluates no later gate, and returns no error when no
\* reconciler fails.
C7_NotConformanceOutcome ==
    (gates # <<>> /\ scenario.title = TitleOther) =>
        /\ gates = <<"title">>
        /\ outcome.apply
        /\ outcome.labels = <<LabelNCPS, LabelUTP>>
        /\ outcome.comment = NotConformanceComment
        /\ outcome.state = Pending
        /\ LabelCallsAre({LabelNCPS, LabelUTP})
        /\ CommentCallsAre(NotConformanceComment)
        /\ StatusCallsAre(Pending)
        /\ (pc = "idle" /\ NoFailedCall) =>
               /\ result = "nil"
               /\ {LabelNCPS, LabelUTP} \subseteq SeqToSet(ghLabels)

C7_Witness ==
    /\ scenario.title = TitleOther
    /\ pc = "idle"
    /\ result = "nil"
    /\ CallsOf({"AddLabel"}) # <<>>
    /\ CallsOf({"CreateComment"}) # <<>>
    /\ CallsOf({"CreateStatus"}) # <<>>

ReleaseGateFails ==
    gates # <<>> /\ scenario.title = TitleConformance /\ scenario.releaseErr = ReleaseError

\* C8 as stated: when the title gate passes and release validation fails, the
\* pass applies the labels conformance-product-submission and
\* unable-to-process, a comment that is the validator's error text with its
\* first letter capitalized, and the status pending; the rule suite is not
\* run, and an error is returned even when no reconciler fails.
C8_AsStated ==
    ReleaseGateFails =>
        /\ gates = <<"title", "release">>
        /\ outcome.labels = <<LabelCPS, LabelUTP>>
        /\ outcome.comment =
               <<"U", "nable to use release v1.99, it is not a supported release">>
        /\ outcome.state = Pending
        /\ (pc = "idle" /\ NoFailedCall) => result = "gate"

\* C8 amended: when the title gate passes and release validation fails, the
\* pass applies the labels conformance-product-submission and
\* unable-to-process, a comment that is the validator's error text with its
\* first letter capitalized followed by a full stop, and the status pending;
\* the rule suite is not run, and an error is returned even when no reconciler
\* fails.
C8_UnsupportedReleaseOutcome ==
    ReleaseGateFails =>
        /\ gates = <<"title", "release">>
        /\ outcome.apply
        /\ outcome.labels = <<LabelCPS, LabelUTP>>
        /\ outcome.comment =
               <<"U", "nable to use release v1.99, it is not a supported release", ".">>
        /\ outcome.state = Pending
        /\ LabelCallsAre({LabelCPS, LabelUTP})
        /\ CommentCallsAre(outcome.comment)
        /\ StatusCallsAre(Pending)
        /\ (pc = "idle" /\ NoFailedCall) => result = "gate"

C8_Witness ==
    /\ ReleaseGateFails
    /\ pc = "idle"
    /\ result = "gate"
    /\ NoFailedCall
    /\ CallsOf({"CreateComment"}) # <<>>

MetadataGateReached ==
    gates # <<>> /\ scenario.title = TitleConformance /\ scenario.releaseErr = NoError

\* C9: when the title and release gates pass and conformance.yaml does not
\* exist, the pass applies the labels conformance-product-submission and
\* unable-to-process, the comment that the version cannot be processed yet and
\* the status pending, does not run the rule suite, and returns an error even
\* when no reconciler fails; another read error goes on to the rule suite.
C9_MetadataMissingOutcome ==
    /\ (MetadataGateReached /\ scenario.metadata = "notexist") =>
        /\ gates = <<"title", "release", "metadata">>
        /\ outcome.apply
        /\ outcome.labels = <<LabelCPS, LabelUTP>>
        /\ outcome.comment =
               <<"The release version ", "v1.29",
                 " is unable to be processed at this time; Please wait as this version may become available soon.">>
        /\ outcome.state = Pending
        /\ LabelCallsAre({LabelCPS, LabelUTP})
        /\ CommentCallsAre(outcome.comment)
        /\ StatusCallsAre(Pending)
        /\ (pc = "idle" /\ NoFailedCall) => result = "gate"
    /\ (MetadataGateReached /\ scenario.metadata = "ioerror") =>
        /\ gates = <<"title", "release", "metadata", "suite">>
        /\ outcome.labels = scenario.verdict.labels
        /\ outcome.comment = scenario.verdict.comment

C9_Witness ==
    /\ MetadataGateReached
    /\ scenario.metadata = "notexist"
    /\ pc = "idle"
    /\ result = "gate"
    /\ NoFailedCall
    /\ CallsOf({"CreateComment"}) # <<>>

Rank(op) ==
    IF op \in LabelOps THEN 1
    ELSE IF op \in CommentOps THEN 2
    ELSE IF op \in StatusOps THEN 3
    ELSE 0

Returned(rank) == <<"fetch", "labels", "comments", "status">>[rank + 1]

\* C10: the calls of a pass are those of updateLabels, then those of
\* updateComments, then those of updateStatus; a failed call is the last call
\* of the pass, and handle returns the error of the reconciler that issued it.
C10_OrderAndFirstError ==
    /\ \A i, j \in 1..Len(calls) : i < j => Rank(calls[i].op) <= Rank(calls[j].op)
    /\ \A i \in 1..(Len(calls) - 1) : calls[i].ok
    /\ (pc = "idle" /\ result # "event" /\ ~NoFailedCall)
           => result = Returned(Rank(calls[Len(calls)].op))
    /\ (pc = "idle" /\ NoFailedCall) => result \notin {"fetch", "labels", "comments", "status"}

C10_Witness ==
    /\ pc = "idle"
    /\ result = "labels"
    /\ CallsOf({"AddLabel"}) # <<>>
    /\ calls[Len(calls)] = Call("RemoveLabel", LabelRelease28, FALSE)

-----------------------------------------------------------------------------
(* Properties of the rule-suite step, the classifier and the reconcilers *)

SuiteGates == <<"title", "release", "metadata", "suite">>
ReconcilerOps == LabelOps \cup CommentOps \cup StatusOps

\* the rule suite has run in the current pass and has returned a verdict
SuiteReturnedVerdict == gates = SuiteGates /\ ~scenario.verdict.err

\* C11: when all three gates pass and the rule suite returns an empty comment
\* with an empty label list, the pass issues no label, comment or status call
\* and returns no error; for any other verdict the pass applies the labels, the
\* comment and the state of the verdict, each reconciler running unless an
\* earlier one failed.
C11_NothingNewOrFullTriple ==
    SuiteReturnedVerdict =>
        IF scenario.verdict.comment = EmptyString /\ scenario.verdict.labels = <<>>
        THEN /\ pc = "idle"
             /\ CallsOf(ReconcilerOps) = <<>>
             /\ result = "nil"
        ELSE /\ outcome.apply
             /\ outcome.labels = scenario.verdict.labels
             /\ outcome.comment = scenario.verdict.comment
             /\ outcome.state = scenario.verdict.state
             /\ LabelCallsAre(SeqToSet(scenario.verdict.labels))
             /\ CommentCallsAre(scenario.verdict.comment)
             /\ StatusCallsAre(scenario.verdict.state)
             /\ pc \in {"comments", "status"}
                    => SeqToSet(scenario.verdict.labels) \subseteq SeqToSet(ghLabels)
             /\ (pc = "idle" /\ NoFailedCall) =>
                    /\ result = "nil"
                    /\ SeqToSet(scenario.verdict.labels) \subseteq SeqToSet(ghLabels)
                    /\ CommentsCalled
                    /\ \/ SnapshotHeadSuccess
                       \/ ghStatus[StatusContext] = scenario.verdict.state
                       \/ CombinedState(ghStatus) = scenario.verdict.state

C11_Witness ==
    /\ SuiteReturnedVerdict
    /\ scenario.verdict = VerdictNothingNew
    /\ pc = "idle"
    /\ result = "nil"
    /\ CallsOf({"fetchFileFromURI"}) # <<>>

\* the calls a step adds to the log of the pass
NewCalls == SubSeq(calls', Len(calls) + 1, Len(calls'))

\* the description the claim gives for a state
DescriptionByState(state) ==
    CASE state = Str("success") -> Str("All checks are passing")
      [] state = Str("failure") ->
             Str("Please check failing requirements and update accordingly")
      [] OTHER -> Str("Internal error")

\* C13: in updateStatus, when the snapshot's head commit has no successful
\* verify-conformance context, GetCombinedStatus is called; if it fails, no
\* CreateStatus call is made and the error is returned; if the combined state
\* equals the desired state, no CreateStatus call is made; otherwise exactly
\* one CreateStatus call is made, with context verify-conformance, the desired
\* state and the description of that state (internal error for a state that is
\* neither success nor failure).
C13_StatusUpdate ==
    [][(pc = "status" /\ ~SnapshotHeadSuccess) =>
          /\ Len(NewCalls) \in {1, 2}
          /\ NewCalls[1].op = "GetCombinedStatus"
          /\ ~NewCalls[1].ok =>
                 /\ Len(NewCalls) = 1
                 /\ result' = "status"
                 /\ ghStatus' = ghStatus
          /\ (NewCalls[1].ok /\ CombinedState(ghStatus) = outcome.state) =>
                 /\ Len(NewCalls) = 1
                 /\ result' # "status"
                 /\ ghStatus' = ghStatus
          /\ (NewCalls[1].ok /\ CombinedState(ghStatus) # outcome.state) =>
                 /\ Len(NewCalls) = 2
                 /\ NewCalls[2].op = "CreateStatus"
                 /\ NewCalls[2].arg.context = Str("verify-conformance")
                 /\ NewCalls[2].arg.state = outcome.state
                 /\ NewCalls[2].arg.description = DescriptionByState(outcome.state)
                 /\ NewCalls[2].arg.ref = pr.headRefOID
                 /\ result' = "status" <=> ~NewCalls[2].ok
                 /\ NewCalls[2].ok => ghStatus'[StatusContext] = outcome.state
      ]_vars

C13_Witness ==
    /\ StatusReturned
    /\ ~SnapshotHeadSuccess
    /\ outcome.state = Pending
    /\ result = "gate"
    /\ calls[Len(calls)].op = "CreateStatus"
    /\ calls[Len(calls)].arg.description = Str("Internal error")
    /\ calls[Len(calls)].ok

\* a label call of the current pass has failed
LabelCallFailed == \E i \in 1..Len(calls) : calls[i].op \in LabelOps /\ ~calls[i].ok

\* the labels the calls op of the current pass succeeded for
Succeeded(op) == {calls[i].arg : i \in {k \in 1..Len(calls) : calls[k].op = op /\ calls[k].ok}}

\* C18: when an AddLabel or RemoveLabel call fails, it is the last label call
\* of updateLabels (after a failed AddLabel there is no RemoveLabel call at
\* all), updateLabels returns an error and empty lists, the label changes that
\* succeeded before it stay on GitHub, and handle returns that error with no
\* comment or status call in that pass.
C18_LabelFailureStopsThePass ==
    LabelCallFailed =>
        /\ calls[Len(calls)].op \in LabelOps
        /\ ~calls[Len(calls)].ok
        /\ \A i \in 1..(Len(calls) - 1) : calls[i].ok
        /\ calls[Len(calls)].op = "AddLabel" => CallsOf({"RemoveLabel"}) = <<>>
        /\ pc = "idle"
        /\ result = "labels"
        /\ returned = [newLabels |-> <<>>, removedLabels |-> <<>>]
        /\ SeqToSet(ghLabels) = (Current \cup Succeeded("AddLabel")) \ Succeeded("RemoveLabel")
        /\ CallsOf(CommentOps \cup StatusOps) = <<>>

C18_Witness ==
    /\ LabelCallFailed
    /\ calls[Len(calls)].op = "AddLabel"
    /\ Succeeded("AddLabel") # {}
    /\ Succeeded("AddLabel") \subseteq SeqToSet(ghLabels)
    /\ pc = "idle"

FetchOps == {"GetIssueLabels", "GetStableTxt", "GetPullRequestChanges", "fetchFileFromURI"}

FetchFailed == \E i \in 1..Len(calls) : calls[i].op \in FetchOps /\ ~calls[i].ok

\* the state handle starts from: nothing of an earlier pass is left
FromScratch ==
    /\ prLabels = <<>>
    /\ outcome = Stop(<<>>, "nil")
    /\ calls = <<>>
    /\ gates = <<>>
    /\ returned = [newLabels |-> <<>>, removedLabels |-> <<>>]

\* C23: when a fetch of NewPRSuiteForPR fails (the issue labels, the changes,
\* the content of a changed file, or the latest version), handle returns an
\* error having evaluated no gate, issued no label, comment or status call
\* and left the PR on GitHub as it was; the PR can be handled again, and the
\* pass that follows starts from scratch and fetches everything again.
C23_FetchFailureReturnsUntouched ==
    /\ [](FetchFailed =>
             /\ pc = "idle"
             /\ result = "fetch"
             /\ gates = <<>>
             /\ CallsOf(ReconcilerOps) = <<>>
             /\ calls[Len(calls)].op \in FetchOps
             /\ (passes < MaxPasses => ENABLED HandleAll))
    /\ [][/\ (pc = "handle" /\ FetchFailed') =>
              UNCHANGED <<ghLabels, ghComments, ghStatus>>
          /\ (result = "fetch" /\ pc' = "handle") =>
              /\ FromScratch'
              /\ result' = "running"
          /\ (pc = "handle" /\ ~prevClean /\ calls' # <<>>) =>
              /\ calls'[1].op = "GetIssueLabels"
              /\ FetchFailed' \/ Len(CallsOf(FetchOps)') = Cardinality(FetchOps)]_vars

C23_Witness ==
    /\ FetchFailed
    /\ calls[Len(calls)].op = "fetchFileFromURI"
    /\ result = "fetch"
    /\ passes = 2
    /\ ~prevClean
    /\ ghLabels # <<>>

IsPrefixOf(a, b) == Len(a) <= Len(b) /\ a = SubSeq(b, 1, Len(a))

\* what the gates evaluated, in their order, found: every gate before the
\* last one passed, and the last one stopped the pass unless it is the suite
GatesFound(gs, sc) ==
    /\ Len(gs) >= 2 => isConformancePR(sc.title)
    /\ Len(gs) >= 3 => sc.releaseErr = NoError
    /\ Len(gs) >= 4 => ~MetadataUnavailable(sc.metadata)
    /\ Len(gs) = 1 => ~isConformancePR(sc.title)
    /\ Len(gs) = 2 => sc.releaseErr # NoError
    /\ Len(gs) = 3 => MetadataUnavailable(sc.metadata)

\* C24: in one pass the gates are evaluated in the order title, release,
\* metadata, rule suite, each only when the ones before it have passed, so
\* the rule suite runs only after all three; one outcome is chosen and kept
\* to the end of the pass; and updateLabels, updateComments and updateStatus
\* are each entered at most once, in that order.
C24_OneTripleGatesInOrder ==
    /\ [](/\ IsPrefixOf(gates, SuiteGates)
          /\ Len(CallsOf({"ListIssueComments"})) <= 1
          /\ Len(CallsOf({"CreateComment"})) <= 1
          /\ Len(CallsOf({"CreateStatus"})) <= 1
          /\ pc \in {"labels", "comments", "status"} =>
                /\ outcome.apply
                /\ outcome.gates = gates
                /\ GatesFound(gates, scenario))
    /\ [][/\ pc' = "handle" => (pc = "idle" /\ passes' >= passes /\ gates' = <<>>)
          /\ pc' = "labels" => pc = "handle"
          /\ pc' = "comments" => pc = "labels"
          /\ pc' = "status" => pc = "comments"
          /\ pc \in {"labels", "comments", "status"} =>
                UNCHANGED <<outcome, gates, scenario, passes>>
          /\ pc = "handle" =>
                /\ UNCHANGED <<scenario, passes>>
                /\ gates' # <<>> => GatesFound(gates', scenario)
                /\ CallsOf(ReconcilerOps)' = <<>>]_vars

C24_Witness ==
    /\ pc = "idle"
    /\ gates = SuiteGates
    /\ result = "nil"
    /\ CallsOf(LabelOps) # <<>>
    /\ Len(CallsOf({"CreateComment"})) = 1
    /\ Len(CallsOf({"CreateStatus"})) = 1
    /\ passes = 2

-----------------------------------------------------------------------------
(* Functions called on their own: the variables of the pass stay as they are, *)
(* args holds the arguments and ret what each call returned                  *)

PassIdle ==
    /\ ghLabels = <<>>
    /\ ghComments = <<>>
    /\ ghStatus = Statuses(NoStatus, NoStatus)
    /\ numCommits = CommitsFirst
    /\ author = Owner
    /\ scenario = Scenario(TitleConformance, NoError, "exists", VerdictPass)
    /\ pc = "idle"
    /\ trigger = "none"
    /\ pr = NewPullRequestQueryForGithubPullRequest(EmptyString, Owner)
    /\ prLabels = <<>>
    /\ outcome = Stop(<<>>, "nil")
    /\ calls = <<>>
    /\ gates = <<>>
    /\ comments0 = <<>>
    /\ labels0 = <<>>
    /\ result = "none"
    /\ returned = [newLabels |-> <<>>, removedLabels |-> <<>>]
    /\ passes = 0
    /\ prevClean = FALSE
    /\ everSuccess = FALSE

(* The label classifier *)

ClassifyCalls == 2

\* the label strings the classifier is asked about: every fixed name, names of
\* each template with the current and another version or file, and names that
\* only contain a template's prefix
ClassifierLabels ==
    SeqToSet(managedPRLabels) \cup
    {LabelRelease28, LabelRelease29, <<"no-failed-tests-", "v1.29">>,
     <<"tests-verified-", "v1.28">>, LabelMissingReadme,
     <<"missing-file-", "PRODUCT.yaml">>, LabelUnrelated, EmptyString,
     <<"pre-", "release-", "notes">>, <<"missing-file-", "release-", "notes.md">>}

ClassifierVersions == {Str("v1.28"), Str("v1.29")}

ClassifierMissingFiles ==
    {<<>>, <<Str("README.md")>>, <<Str("README.md"), Str("PRODUCT.yaml")>>}

\* plugin.go:358-360: the three tests made of one label
classify(label, version, missingFiles) ==
    [fixed |-> labelIsManaged(label),
     version |-> labelIsVersionLabel(label, version),
     file |-> labelIsFileLabel(label, missingFiles)]

ClassifierInit ==
    /\ PassIdle
    /\ BatchIdle
    /\ SearchIdle
    /\ args \in [label : ClassifierLabels, version : ClassifierVersions,
                  missingFiles : ClassifierMissingFiles]
    /\ ret = <<>>

\* one more call with the same arguments
Classify ==
    /\ Len(ret) < ClassifyCalls
    /\ ret' = Append(ret, classify(args.label, args.version, args.missingFiles))
    /\ UNCHANGED <<passVars, args, batchVars, searchVars>>

ClassifierNext == Classify

SpecClassifier == ClassifierInit /\ [][ClassifierNext]_vars

\* the categories a classification puts the label in
Categories(c) == {k \in {"fixed", "version", "file"} : c[k]}

-----------------------------------------------------------------------------
(* HandleAll over the open PRs of the repository *)

MaxPRs == 2

\* plugin.go:705, 720-728: the orgs of the configuration, and the org of each
\* configured repo appended to them
BatchOrgs == {<<>>, <<Owner>>, <<Owner, Owner>>}

\* a PR handle returns an error for even when no call fails, and one it
\* returns nil for
BatchScenarios ==
    {Scenario(TitleConformance, ReleaseError, "exists", VerdictPass),
     Scenario(TitleConformance, NoError, "exists", VerdictPass)}

\* an open PR on GitHub
BatchPR(sc) ==
    [scenario |-> sc, labels |-> <<LabelRelease28>>, comments |-> <<>>,
     status |-> Statuses(NoStatus, NoStatus)]

\* what search returns for the query of plugin.go:716-729: every open PR
SearchResult(prsOnGitHub) ==
    [i \in 1..Len(prsOnGitHub) |->
        [number |-> i,
         snapshot |-> SearchSnapshot(prsOnGitHub[i].scenario.title, CommitsFirst,
                                     prsOnGitHub[i].status)]]

\* where a call of handle may fail: the first call of the named part fails
Failures == {"none", "fetch", "labels", "comments", "status"}

FailAt(part, fail) == IF fail = part THEN 1 ELSE 0

\* plugin.go:530-626: one call of handle on the PR gh with the snapshot, from
\* NewPRSuiteForPR through the gates to the three reconcilers
handleOnce(gh, snapshot, fail) ==
    LET s == NewPRSuiteForPR(snapshot, FailAt("fetch", fail))
        g == Gates(gh.scenario)
        l == updateLabels(gh.labels, gh.labels, g.labels, gh.scenario.version,
                          g.missingFiles, FailAt("labels", fail))
        c == updateComments(gh.comments, g.comment, FailAt("comments", fail))
        st == updateStatus(gh.status, CommitsFirst, snapshot, g.state,
                           FailAt("status", fail))
    IN  IF s.err THEN [calls |-> s.calls, gh |-> gh, result |-> "fetch"]
        ELSE IF ~g.apply THEN [calls |-> s.calls, gh |-> gh, result |-> g.result]
        ELSE IF AfterLabels(l.err) = "idle"
        THEN [calls |-> s.calls \o l.calls, gh |-> [gh EXCEPT !.labels = l.gh],
              result |-> "labels"]
        ELSE IF AfterComments(c.err) = "idle"
        THEN [calls |-> s.calls \o l.calls \o c.calls,
              gh |-> [gh EXCEPT !.labels = l.gh, !.comments = c.gh],
              result |-> "comments"]
        ELSE [calls |-> s.calls \o l.calls \o c.calls \o st.calls,
              gh |-> [gh EXCEPT !.labels = l.gh, !.comments = c.gh, !.status = st.gh],
              result |-> IF st.err THEN "status"
                         ELSE IF g.err THEN "gate" ELSE "nil"]

\* AfterHandleError returning the error of handle
AfterHandleErrorReturns(err) == IF err THEN "return" ELSE "continue"

\* plugin.go:738-741: the error of handle is logged
AfterHandleError(err) == "continue"

BatchInit ==
    /\ PassIdle
    /\ SearchIdle
    /\ args = <<>>
    /\ ret = <<>>
    /\ \E n \in 0..MaxPRs : repo \in [1..n -> {BatchPR(sc) : sc \in BatchScenarios}]
    /\ orgs \in BatchOrgs
    /\ searched = 0
    /\ prs = <<>>
    /\ hpc = "start"
    /\ handled = <<>>
    /\ batchRet = "none"

\* plugin.go:705-711
HandleAllStart ==
    /\ hpc = "start"
    /\ IF Len(orgs) = 0
       THEN hpc' = "returned" /\ batchRet' = "nil"
       ELSE hpc' = "search" /\ batchRet' = batchRet
    /\ UNCHANGED <<passVars, args, ret, searchVars, repo, orgs, searched, prs, handled>>

AfterSearchStartsLoop(n, total) == "loop"

\* plugin.go:730-736: the loop over prs starts after the search of the last org
AfterSearch(n, total) == IF n = total THEN "loop" ELSE "search"

\* plugin.go:730-736: the search of the next org
HandleAllSearch ==
    /\ hpc = "search"
    /\ \E ok \in BOOLEAN :
        IF ok
        THEN /\ prs' = prs \o SearchResult(repo)
             /\ searched' = searched + 1
             /\ hpc' = AfterSearch(searched + 1, Len(orgs))
             /\ batchRet' = batchRet
        ELSE /\ hpc' = "returned"
             /\ batchRet' = "error"
             /\ UNCHANGED <<prs, searched>>
    /\ UNCHANGED <<passVars, args, ret, searchVars, repo, orgs, handled>>

\* plugin.go:738-742: handle on the next PR of the list
HandleAllHandle ==
    /\ hpc = "loop"
    /\ Len(handled) < Len(prs)
    /\ \E fail \in Failures :
        LET p == prs[Len(handled) + 1]
            r == handleOnce(repo[p.number], p.snapshot, fail)
            after == [repo EXCEPT ![p.number] = r.gh]
        IN  /\ repo' = after
            /\ handled' = Append(handled,
                   [number |-> p.number, calls |-> r.calls, result |-> r.result,
                    touched |-> {m \in DOMAIN repo : after[m] # repo[m]}])
            /\ IF AfterHandleError(r.result # "nil") = "continue"
               THEN hpc' = hpc /\ batchRet' = batchRet
               ELSE hpc' = "returned" /\ batchRet' = "error"
    /\ UNCHANGED <<passVars, args, ret, searchVars, orgs, searched, prs>>

\* plugin.go:743
HandleAllReturn ==
    /\ hpc = "loop"
    /\ Len(handled) = Len(prs)
    /\ hpc' = "returned"
    /\ batchRet' = "nil"
    /\ UNCHANGED <<passVars, args, ret, searchVars, repo, orgs, searched, prs, handled>>

BatchNext ==
    \/ HandleAllStart
    \/ HandleAllSearch
    \/ HandleAllHandle
    \/ HandleAllReturn

SpecBatch == BatchInit /\ [][BatchNext]_vars

\* C14: handle is invoked on the PRs the searches returned, in their order,
\* once for each, whatever it returned for the earlier ones; when every search
\* has succeeded HandleAll returns nil, after the last PR; and an invocation of
\* handle changes the labels, comments and status of no other PR than its own.
C14_ErrorsScopedToOnePR ==
    /\ Len(handled) <= Len(prs)
    /\ \A i \in 1..Len(handled) :
           /\ handled[i].number = prs[i].number
           /\ handled[i].touched \subseteq {prs[i].number}
    /\ Len(handled) > 0 => searched = Len(orgs)
    /\ (hpc = "returned" /\ searched = Len(orgs)) =>
           /\ Len(handled) = Len(prs)
           /\ Len(prs) = Len(orgs) * Len(repo)
           /\ batchRet = "nil"

C14_Witness ==
    /\ hpc = "returned"
    /\ batchRet = "nil"
    /\ Len(handled) = 2
    /\ handled[1].result = "labels"
    /\ handled[1].number # handled[2].number
    /\ handled[2].result = "nil"
    /\ \E i \in 1..Len(handled[2].calls) :
           /\ handled[2].calls[i].op = "AddLabel"
           /\ handled[2].calls[i].arg = LabelRelease29
           /\ handled[2].calls[i].ok

\* C22: no PR is handled, and so no label, comment or status call is issued
\* and no PR on GitHub is changed, before the search of every org has
\* returned; a failed search makes HandleAll return its error with no PR
\* handled.
C22_SearchesBeforeAnyPR ==
    /\ searched < Len(orgs) =>
           /\ handled = <<>>
           /\ \A m \in DOMAIN repo : repo[m] \in {BatchPR(sc) : sc \in BatchScenarios}
    /\ hpc = "loop" => Len(prs) = Len(orgs) * Len(repo)
    /\ batchRet = "error" =>
           /\ hpc = "returned"
           /\ searched < Len(orgs)

C22_Witness ==
    /\ Len(orgs) = 2
    /\ searched = 2
    /\ Len(handled) = 1
    /\ handled[1].calls # <<>>
    /\ repo[handled[1].number] \notin {BatchPR(sc) : sc \in BatchScenarios}

-----------------------------------------------------------------------------
(* Periodic passes over one PR whose calls fail in the first pass only *)

ConvergePasses == 3
FailingPasses == 1

ConvergeLabels == <<LabelRelease28, LabelUnrelated>>

ConvergeScenarios ==
    {Scenario(TitleOther, NoError, "exists", VerdictPass),
     Scenario(TitleConformance, NoError, "exists", VerdictPass),
     Scenario(TitleConformance, NoError, "exists", VerdictFail)}

ConvergeInit ==
    /\ ghLabels = ConvergeLabels
    /\ ghComments \in {<<>>, <<Comment(BotLogin, Str("old")), Comment("alice", Str("old"))>>}
    /\ ghStatus \in {Statuses(NoStatus, NoStatus), Statuses(NoStatus, Failure)}
    /\ numCommits \in {CommitsFirst, CommitsFirst + ExtraCommits}
    /\ author = Owner
    /\ scenario \in ConvergeScenarios
    /\ pc = "idle"
    /\ trigger = "none"
    /\ pr = NewPullRequestQueryForGithubPullRequest(EmptyString, author)
    /\ prLabels = <<>>
    /\ outcome = Stop(<<>>, "nil")
    /\ calls = <<>>
    /\ gates = <<>>
    /\ comments0 = <<>>
    /\ labels0 = <<>>
    /\ result = "none"
    /\ returned = [newLabels |-> <<>>, removedLabels |-> <<>>]
    /\ passes = 0
    /\ prevClean = FALSE
    /\ everSuccess = FALSE
    /\ args = <<>>
    /\ ret = <<>>
    /\ BatchIdle
    /\ SearchIdle

\* after the first passes every GitHub call succeeds
Reliable == passes > FailingPasses => \A i \in 1..Len(calls) : calls[i].ok

\* plugin.go:737-743: the next periodic pass, on a fresh snapshot; the passes
\* never end, and they are counted up to ConvergePasses
PeriodicPass ==
    Begin("periodic", SearchSnapshot(scenario.title, numCommits, ghStatus),
          IF passes < ConvergePasses THEN passes + 1 ELSE passes)

PassFetch == handle /\ Reliable'
PassLabels == handleUpdateLabels /\ Reliable'
PassComments == handleUpdateComments /\ Reliable'
PassStatus == handleUpdateStatus /\ Reliable'

ConvergeNext ==
    \/ PeriodicPass
    \/ PassFetch
    \/ PassLabels
    \/ PassComments
    \/ PassStatus

\* HandleAll is called periodically and handle runs to its end
SpecConverge == ConvergeInit /\ [][ConvergeNext]_vars /\ WF_vars(ConvergeNext)

\* the triple the passes apply to the PR
Target == Gates(scenario)

LabelsConverged ==
    LET current == SeqToSet(ConvergeLabels)
        desired == SeqToSet(Target.labels)
    IN SeqToSet(ghLabels) =
           (current \ {l \in current :
                          /\ IsManagedLabel(l, scenario.version, Target.missingFiles)
                          /\ l \notin desired}) \cup desired

CommentConverged ==
    \E i \in 1..Len(ghComments) :
        /\ ghComments[i] = Comment(BotLogin, Target.comment)
        /\ \A j \in (i + 1)..Len(ghComments) : ghComments[j].login # BotLogin

\* the verify-conformance status of the head commit, or else the combined
\* status GitHub reports for it, is the desired state
StatusConverged ==
    \/ ghStatus[StatusContext] = Target.state
    \/ CombinedState(ghStatus) = Target.state

\* a pass was cut short by a failing call
PassCutShort == pc = "idle" /\ passes > 0 /\ ~NoFailedCall

\* C15: if a pass over the PR was cut short by a failing GitHub call and from
\* then on every call succeeds and the verdict stays the same, the periodic
\* passes eventually reach a state where the labels are (current minus managed
\* and not desired) union desired, the latest bot comment is the verdict's
\* comment and the status is the desired state, and from then on the passes
\* issue no mutating call.
C15_ConvergesAndStaysQuiet ==
    (<>PassCutShort) =>
        <>[](/\ LabelsConverged
             /\ CommentConverged
             /\ StatusConverged
             /\ CallsOf(MutatingOps) = <<>>)

-----------------------------------------------------------------------------
(* updateLabels called on its own, more than once on the same prSuite *)

UpdateLabelsCalls == 2

\* prSuite.PR.Labels before the first call
LabelSequences ==
    {<<>>,
     <<LabelUnrelated>>,
     <<LabelRelease28, LabelUnrelated>>,
     <<LabelCPS, LabelRelease29>>,
     <<LabelRelease28, LabelRelease28>>,
     <<LabelNCPS, LabelRDC, LabelUTP>>}

\* the labels argument
DesiredLists ==
    {<<>>,
     <<LabelCPS, LabelRelease29>>,
     <<LabelCPS, LabelCPS>>,
     <<LabelCPS, LabelRelease29, LabelMissingReadme>>,
     <<LabelUnrelated, LabelCPS>>}

LabelsInit ==
    /\ PassIdle
    /\ BatchIdle
    /\ SearchIdle
    /\ args \in [current : LabelSequences, labels : DesiredLists,
                  version : {Str("v1.29")},
                  missingFiles : {<<>>, <<Str("README.md")>>}]
    /\ ret = <<>>

\* prSuite.PR.Labels before the next call
InMemoryLabels == IF ret = <<>> THEN args.current ELSE ret[Len(ret)].prLabels

\* the labels of the PR on GitHub before the next call: at first those of
\* prSuite.PR.Labels, each once
LabelsOnGitHub ==
    IF ret = <<>> THEN GitHubAddLabels(<<>>, args.current) ELSE ret[Len(ret)].gh

\* one more call of updateLabels with the same labels argument, after a call
\* that returned no error
CallUpdateLabels ==
    /\ Len(ret) < UpdateLabelsCalls
    /\ ret # <<>> => ~ret[Len(ret)].err
    /\ \E failAt \in 0..updateLabelsCalls(InMemoryLabels, args.labels, args.version,
                                           args.missingFiles) :
           ret' = Append(ret, updateLabels(LabelsOnGitHub, InMemoryLabels, args.labels,
                                           args.version, args.missingFiles, failAt))
    /\ UNCHANGED <<passVars, args, batchVars, searchVars>>

LabelsNext == CallUpdateLabels

SpecLabels == LabelsInit /\ [][LabelsNext]_vars

\* prSuite.PR.Labels before the i-th call
Before(i) == IF i = 1 THEN args.current ELSE ret[i - 1].prLabels

\* the labels the calls op of the i-th call of updateLabels succeeded for
Confirmed(i, op) ==
    LET cs == SelectSeq(ret[i].calls, LAMBDA c : c.op = op /\ c.ok)
    IN [k \in 1..Len(cs) |-> cs[k].arg]

ManagedArg(l) == IsManagedLabel(l, args.version, args.missingFiles)

\* C16: after updateLabels returns without error, prSuite.PR.Labels is the
\* previous sequence with the confirmed adds appended and the confirmed removes
\* filtered out, so it contains every unmanaged label it had and every desired
\* managed label; and a second call with the same desired list issues no
\* AddLabel and no RemoveLabel call.
C16_InMemoryLabelsMaintained ==
    \A i \in 1..Len(ret) :
        ~ret[i].err =>
            /\ ret[i].prLabels =
                   removeSliceOfStringsFromStringSlice(
                       Before(i) \o Confirmed(i, "AddLabel"), Confirmed(i, "RemoveLabel"))
            /\ \A l \in SeqToSet(Before(i)) : ~ManagedArg(l) => InSeq(l, ret[i].prLabels)
            /\ \A l \in SeqToSet(args.labels) : ManagedArg(l) => InSeq(l, ret[i].prLabels)
            /\ i > 1 => ret[i].calls = <<>>

\* C17: the lists a successful updateLabels call returns are disjoint and hold
\* managed labels only: newLabels is the labels AddLabel succeeded for in this
\* call, removedLabels the labels RemoveLabel succeeded for in this call.
C17_ReturnedListsExact ==
    \A i \in 1..Len(ret) :
        ~ret[i].err =>
            /\ ret[i].newLabels = Confirmed(i, "AddLabel")
            /\ SeqToSet(ret[i].removedLabels) = SeqToSet(Confirmed(i, "RemoveLabel"))
            /\ SeqToSet(ret[i].newLabels) \cap SeqToSet(ret[i].removedLabels) = {}
            /\ \A l \in SeqToSet(ret[i].newLabels) \cup SeqToSet(ret[i].removedLabels) :
                   ManagedArg(l)

\* C19: within one updateLabels call no two AddLabel requests are for the same
\* label and no two RemoveLabel requests are for the same label.
C19_AtMostOneRequestPerLabel ==
    \A i \in 1..Len(ret) :
        \A j, k \in 1..Len(ret[i].calls) :
            (j < k /\ ret[i].calls[j].op = ret[i].calls[k].op)
                => ret[i].calls[j].arg # ret[i].calls[k].arg

-----------------------------------------------------------------------------
(* updateComments called on its own, again and again on the same PR *)

MaxComments == 3
UpdateCommentsCalls == 2

\* the comments a PR may carry: of the bot, non-empty or empty, and of a user
SomeComments ==
    {Comment(BotLogin, Str("A")), Comment(BotLogin, Str("B")),
     Comment(BotLogin, EmptyString), Comment("alice", Str("A"))}

\* the comment argument
Bodies == {Str("A"), Str("B"), EmptyString}

CommentsInit ==
    /\ PassIdle
    /\ BatchIdle
    /\ SearchIdle
    /\ \E n \in 0..MaxComments : args \in [comments : [1..n -> SomeComments]]
    /\ ret = <<>>

\* the comments of the PR on GitHub before the next call
CommentsOnGitHub == IF ret = <<>> THEN args.comments ELSE ret[Len(ret)].gh

\* one more call of updateComments, after a call that returned no error
CallUpdateComments ==
    /\ Len(ret) < UpdateCommentsCalls
    /\ ret # <<>> => ~ret[Len(ret)].err
    /\ \E comment \in Bodies :
        \E failAt \in updateCommentsFailures(CommentsOnGitHub, comment) :
            LET r == updateComments(CommentsOnGitHub, comment, failAt)
            IN ret' = Append(ret, [comment |-> comment, calls |-> r.calls,
                                   gh |-> r.gh, err |-> r.err])
    /\ UNCHANGED <<passVars, args, batchVars, searchVars>>

CommentsNext == CallUpdateComments

SpecComments == CommentsInit /\ [][CommentsNext]_vars

\* the comments on GitHub before the i-th call
CommentsBefore(i) == IF i = 1 THEN args.comments ELSE ret[i - 1].gh

\* the non-empty comments of the bot among cs, oldest first
NonEmptyBot(cs) == SelectSeq(cs, LAMBDA c : c.login = BotLogin /\ c.body # EmptyString)

\* the latest non-empty bot comment of cs has this body
LatestIs(cs, body) ==
    NonEmptyBot(cs) # <<>> /\ NonEmptyBot(cs)[Len(NonEmptyBot(cs))].body = body

\* C20: after a successful updateComments call with a body other than that of
\* the latest bot comment, exactly two non-empty bot comments remain when there
\* was one before, the previous latest and the new one, and exactly one when
\* there was none; after any sequence of successful calls at most two
\* non-empty bot comments exist and the latest has the body requested last.
C20_BotCommentsBounded ==
    \A i \in 1..Len(ret) :
        ~ret[i].err =>
            LET before == NonEmptyBot(CommentsBefore(i))
                after == NonEmptyBot(ret[i].gh)
            IN  /\ ~LatestIs(CommentsBefore(i), ret[i].comment) =>
                       after = IF before = <<>>
                               THEN <<Comment(BotLogin, ret[i].comment)>>
                               ELSE <<before[Len(before)],
                                      Comment(BotLogin, ret[i].comment)>>
                /\ Len(after) <= 2
                /\ LatestIs(ret[i].gh, ret[i].comment)

-----------------------------------------------------------------------------
(* search called on its own: the paged GraphQL search of the open PRs        *)
(* args.pages is what the server holds for the query: page i carries its    *)
(* nodes, whether it reports a next page, and the end cursor that the       *)
(* server resolves to page i + 1.  The rate-limit figures of a page are     *)
(* only logged and are left out.                                            *)

MaxPages == 3
PageSize == 2

Node(i, k) == (i - 1) * PageSize + k

EndCursor(i) == i

PagesOfLength(n) ==
    { [i \in 1..n |-> [nodes |-> [k \in 1..cnt[i] |-> Node(i, k)],
                       hasNextPage |-> IF i = n THEN FALSE ELSE more[i],
                       endCursor |-> EndCursor(i)]] :
          cnt \in [1..n -> 0..PageSize], more \in [1..n -> BOOLEAN] }

SearchPages == UNION { PagesOfLength(n) : n \in 1..MaxPages }

\* the page the server answers with when the query passes this cursor
ServerPage(pages, cursor) ==
    IF cursor = NoCursor THEN pages[1]
    ELSE pages[(CHOOSE i \in 1..Len(pages) : pages[i].endCursor = cursor) + 1]

ResultOnErrorPartial(acc) == acc

ResultOnError(acc) == <<>>

SearchInit ==
    /\ PassIdle
    /\ BatchIdle
    /\ ret = <<>>
    /\ args \in { [pages |-> p] : p \in SearchPages }
    /\ searchCursor = NoCursor
    /\ found = <<>>
    /\ queried = <<>>
    /\ spc = "query"

\* one turn of the loop of search: a query, then append, then break or go on
search ==
    /\ spc = "query"
    /\ \E ok \in BOOLEAN :
         LET page == ServerPage(args.pages, searchCursor) IN
         /\ queried' = Append(queried, [cursor |-> searchCursor, ok |-> ok])
         /\ IF ~ok
            THEN /\ found' = ResultOnError(found)
                 /\ spc' = "failed"
                 /\ UNCHANGED searchCursor
            ELSE /\ found' = found \o page.nodes
                 /\ IF ~page.hasNextPage
                    THEN /\ spc' = "returned"
                         /\ UNCHANGED searchCursor
                    ELSE /\ spc' = "query"
                         /\ searchCursor' = page.endCursor
    /\ UNCHANGED <<passVars, args, ret, batchVars>>

SearchNext == search

\* search runs to its end in the caller's goroutine: every query returns,
\* with a page or with an error, and the loop then takes its next turn
SpecSearch == SearchInit /\ [][SearchNext]_vars /\ WF_vars(SearchNext)

\* the first page that reports no next page
LastPage(pages) ==
    CHOOSE k \in 1..Len(pages) :
        /\ ~pages[k].hasNextPage
        /\ \A j \in 1..(k - 1) : pages[j].hasNextPage

RECURSIVE NodesUpTo(_, _)
NodesUpTo(pages, k) ==
    IF k = 0 THEN <<>> ELSE NodesUpTo(pages, k - 1) \o pages[k].nodes

SearchPaged ==
    /\ \A i \in 1..Len(queried) :
         /\ queried[i].cursor = IF i = 1 THEN NoCursor ELSE args.pages[i - 1].endCursor
         /\ i < Len(queried) => queried[i].ok
    /\ spc = "query" =>
         /\ Len(queried) < LastPage(args.pages)
         /\ found = NodesUpTo(args.pages, Len(queried))
    /\ spc = "returned" =>
         /\ Len(queried) = LastPage(args.pages)
         /\ queried[Len(queried)].ok
         /\ found = NodesUpTo(args.pages, LastPage(args.pages))
    /\ spc = "failed" =>
         /\ ~queried[Len(queried)].ok
         /\ found = <<>>

\* C21: search passes no cursor first and then the end cursor of the page
\* before; it returns the nodes of the pages in page order up to and with
\* the first page that reports no next page; a failed query ends it with the
\* error and no results; and it always comes to an end.
C21_SearchPagesInOrderAndEnds ==
    /\ [](spc # "idle" => SearchPaged)
    /\ <>(spc \in {"returned", "failed"})

C21_Witness ==
    /\ spc = "returned"
    /\ Len(queried) = 2
    /\ Len(args.pages) = 3
    /\ Len(args.pages[1].nodes) = PageSize
    /\ Len(found) > PageSize

====
